---- MODULE Spec2Model ----
(***************************************************************************)
(* Model of backend/ai-engine/app.py: the MEVDetectionEngine (five         *)
(* analyzers, aggregation, classification, the recent-transaction cache)   *)
(* and the /update_mev_bots handler.                                       *)
(*                                                                         *)
(* Text is modelled as a sequence of one-character strings, so that        *)
(* str.lower(), str.startswith(), len(), float() and int() are computed on *)
(* the characters.  A JSON value is a record [k |-> kind, s |-> text]:     *)
(*   k = "str"    a JSON string with the characters s                      *)
(*   k = "num"    a JSON number whose literal is s (json.loads also        *)
(*                accepts the literals Infinity and NaN)                   *)
(*   k = "null"   JSON null (Python None)                                  *)
(*   k = "absent" the key is not in the request                            *)
(* A Python float is a record [cls, milli]: cls is "fin", "inf", "-inf" or *)
(* "nan" and milli is the value in thousandths.                            *)
(***************************************************************************)
EXTENDS Integers, Sequences, FiniteSets, TLC

VARIABLES
    known_mev_bots,        \* detection_engine.known_mev_bots (set of texts)
    recent_transactions,   \* detection_engine.recent_transactions (list)
    now,                   \* time.time(), in seconds
    ncalls,                \* number of analyze_transaction calls started
    verdict,               \* what the last analyze_transaction call returned
    frame,                 \* the locals of that call when it returned
    pc,                    \* where each request thread is in analyze_transaction
    local,                 \* the locals of each request thread
    upd,                   \* the /update_mev_bots request in progress
    base,                  \* the cached hashes when the threads were last all idle
    batch                  \* the hashes of the requests started since then

\* ------------------------------------------------------------------ text

Rep(c, n) == [i \in 1..n |-> c]

Min(a, b) == IF a < b THEN a ELSE b

Range(s) == {s[i] : i \in 1..Len(s)}

UpperAlphabet == <<"A","B","C","D","E","F","G","H","I","J","K","L","M",
                   "N","O","P","Q","R","S","T","U","V","W","X","Y","Z">>

LowerAlphabet == <<"a","b","c","d","e","f","g","h","i","j","k","l","m",
                   "n","o","p","q","r","s","t","u","v","w","x","y","z">>

Digits == <<"0","1","2","3","4","5","6","7","8","9">>

\* the first position of c in alphabet, 0 when it is not there
IndexIn(c, alphabet) ==
    IF \E i \in 1..Len(alphabet) : alphabet[i] = c
    THEN CHOOSE i \in 1..Len(alphabet) :
            alphabet[i] = c /\ \A j \in 1..(i - 1) : alphabet[j] # c
    ELSE 0

\* the lowercase letter of each uppercase letter
LowerOf == [c \in Range(UpperAlphabet) |-> LowerAlphabet[IndexIn(c, UpperAlphabet)]]

\* str.lower() on one character
LowerChar(c) == IF c \in DOMAIN LowerOf THEN LowerOf[c] ELSE c

\* str.lower()
Lower(s) == [i \in 1..Len(s) |-> LowerChar(s[i])]

\* str.startswith(prefix)
StartsWith(s, prefix) ==
    /\ Len(s) >= Len(prefix)
    /\ SubSeq(s, 1, Len(prefix)) = prefix

\* str.count(c)
Count(s, c) == Cardinality({i \in 1..Len(s) : s[i] = c})

IsDigit(c) == c \in Range(Digits)

AllDigits(s) == Len(s) > 0 /\ \A i \in 1..Len(s) : IsDigit(s[i])

RECURSIVE DigitsValue(_)
DigitsValue(s) ==
    IF Len(s) = 0 THEN 0
    ELSE 10 * DigitsValue(SubSeq(s, 1, Len(s) - 1)) + (IndexIn(s[Len(s)], Digits) - 1)

\* the first three fractional digits, as thousandths
FractionMilli(s) ==
    LET d(i) == IF i <= Len(s) THEN IndexIn(s[i], Digits) - 1 ELSE 0
    IN  100 * d(1) + 10 * d(2) + d(3)

\* ------------------------------------------------------- float() and int()

Fin(m) == [cls |-> "fin", milli |-> m]
Special(c) == [cls |-> c, milli |-> 0]

DotAt(s) == IndexIn(".", s)

\* an unsigned decimal literal: digits, digits.digits, digits. or .digits
IsDecimal(s) ==
    IF DotAt(s) = 0 THEN AllDigits(s)
    ELSE LET ip == SubSeq(s, 1, DotAt(s) - 1)
             fp == SubSeq(s, DotAt(s) + 1, Len(s))
         IN  /\ Len(ip) + Len(fp) > 0
             /\ (Len(ip) = 0 \/ AllDigits(ip))
             /\ (Len(fp) = 0 \/ AllDigits(fp))

DecimalMilli(s) ==
    IF DotAt(s) = 0 THEN 1000 * DigitsValue(s)
    ELSE 1000 * DigitsValue(SubSeq(s, 1, DotAt(s) - 1))
         + FractionMilli(SubSeq(s, DotAt(s) + 1, Len(s)))

Unsigned(s) == IF Len(s) > 0 /\ s[1] \in {"-", "+"} THEN Tail(s) ELSE s
Sign(s) == IF Len(s) > 0 /\ s[1] = "-" THEN -1 ELSE 1

\* float(text): decimal literals, inf / infinity / nan in any letter case
\* (exponents, underscores and surrounding blanks are not modelled)
FloatOfText(s) ==
    LET u == Unsigned(s)
        w == Lower(u)
    IN  IF IsDecimal(u) THEN Fin(Sign(s) * DecimalMilli(u))
        ELSE IF w \in {<<"i","n","f">>, <<"i","n","f","i","n","i","t","y">>}
             THEN Special(IF Sign(s) = 1 THEN "inf" ELSE "-inf")
        ELSE IF w = <<"n","a","n">> THEN Special("nan")
        ELSE Special("ValueError")

\* float(x) for a JSON value x that is present in the request
ParseFloat(x) ==
    IF x.k = "null" THEN Special("TypeError")
    ELSE FloatOfText(x.s)

\* int(f) for a Python float f: truncation; inf and nan raise
IntOfFloat(f) ==
    IF f.cls \in {"inf", "-inf"} THEN [cls |-> "OverflowError", n |-> 0]
    ELSE IF f.cls = "nan" THEN [cls |-> "ValueError", n |-> 0]
    ELSE [cls |-> "int",
          n |-> IF f.milli >= 0 THEN f.milli \div 1000
                ELSE -((-f.milli) \div 1000)]

\* int(x) for a JSON value x that is present in the request
ParseInt(x) ==
    IF x.k = "null" THEN [cls |-> "TypeError", n |-> 0]
    ELSE IF x.k = "num" THEN IntOfFloat(FloatOfText(x.s))
    ELSE IF AllDigits(Unsigned(x.s))
         THEN [cls |-> "int", n |-> Sign(x.s) * DigitsValue(Unsigned(x.s))]
    ELSE [cls |-> "ValueError", n |-> 0]

\* f > n, for a Python float f and an integer n
FloatGt(f, n) ==
    \/ f.cls = "inf"
    \/ f.cls = "fin" /\ f.milli > 1000 * n

\* ------------------------------------------------------------ analyzers

\* what an analyzer call produced: a returned {'score', 'factors'} dict, an
\* exception that left the analyzer, or nothing because an earlier one raised
Returned(score, factors) ==
    [st |-> "returned", score |-> score, factors |-> factors, exc |-> "none"]
Raised(exc) == [st |-> "raised", score |-> 0, factors |-> <<>>, exc |-> exc]
NotRun == [st |-> "notrun", score |-> 0, factors |-> <<>>, exc |-> "none"]

Absent == [k |-> "absent", s |-> <<>>]

ParseError(f) == f.cls \in {"ValueError", "TypeError"}

\* the body of the try block of _analyze_gas_patterns once the three float()
\* calls have returned: the three checks, then int(gasLimit), whose
\* ValueError or TypeError is caught with the score and factors so far kept
GasChecks(gas_price, max_fee, priority_fee, gas_limit) ==
    LET s1 == IF FloatGt(gas_price, 100) THEN 25 ELSE 0
        f1 == IF FloatGt(gas_price, 100) THEN <<"high_gas_price">> ELSE <<>>
        s2 == IF FloatGt(max_fee, 200) THEN 30 ELSE 0
        f2 == IF FloatGt(max_fee, 200) THEN <<"extremely_high_gas">> ELSE <<>>
        s3 == IF FloatGt(priority_fee, 50) THEN 20 ELSE 0
        f3 == IF FloatGt(priority_fee, 50) THEN <<"high_priority_fee">> ELSE <<>>
    IN  IF ParseError(gas_price) \/ ParseError(max_fee) \/ ParseError(priority_fee)
        THEN Returned(0, <<"invalid_gas_data">>)
        ELSE IF gas_limit.cls = "OverflowError" THEN Raised("OverflowError")
        ELSE IF gas_limit.cls # "int"
             THEN Returned(s1 + s2 + s3, f1 \o f2 \o f3 \o <<"invalid_gas_data">>)
        ELSE IF gas_limit.n > 500000
             THEN Returned(s1 + s2 + s3 + 10, f1 \o f2 \o f3 \o <<"high_gas_limit">>)
        ELSE Returned(s1 + s2 + s3, f1 \o f2 \o f3)

\* float(tx_data.get('maxFeePerGas', gas_price)) and the two reads after it
GasAfterPrice(tx, gas_price) ==
    GasChecks(gas_price,
              IF tx.maxFeePerGas.k = "absent" THEN gas_price
              ELSE ParseFloat(tx.maxFeePerGas),
              IF tx.maxPriorityFeePerGas.k = "absent" THEN Fin(0)
              ELSE ParseFloat(tx.maxPriorityFeePerGas),
              IF tx.gasLimit.k = "absent" THEN [cls |-> "int", n |-> 0]
              ELSE ParseInt(tx.gasLimit))

\* _analyze_gas_patterns
AnalyzeGasPatterns(tx) ==
    GasAfterPrice(tx, IF tx.gasPrice.k = "absent" THEN Fin(0)
                      ELSE ParseFloat(tx.gasPrice))

\* tx_data.get(key, '') followed by a str method: None and numbers have none
TextOf(x) == IF x.k = "absent" THEN <<>> ELSE x.s
IsText(x) == x.k \in {"str", "absent"}

\* _is_contract_address
IsContractAddress(address) ==
    Len(address) = 42 /\ StartsWith(address, <<"0", "x">>)

\* ------------------------------------------------------------ addresses

Bot0 == <<"0", "x">> \o Rep("0", 40)      \* known_mev_bots, line 22
Bot1 == <<"0", "x">> \o Rep("1", 40)      \* known_mev_bots, line 23
AddrA == <<"0", "x">> \o Rep("a", 40)
AddrAUpper == <<"0", "x">> \o Rep("A", 40)
AddrB == <<"0", "x">> \o Rep("b", 40)
AddrC == <<"0", "x">> \o Rep("c", 40)
AddrCUpper == <<"0", "X">> \o Rep("C", 40)
ShortAddr == <<"0", "x">>

UniswapV2 == <<"0","x","7","a","2","5","0","d","5","6","3","0","b","4","c","f","5","3","9","7","3","9","d","f","2","c","5","d","a","c","b","4","c","6","5","9","f","2","4","8","8","d">>
UniswapV3 == <<"0","x","e","5","9","2","4","2","7","a","0","a","e","c","e","9","2","d","e","3","e","d","e","e","1","f","1","8","e","0","1","5","7","c","0","5","8","6","1","5","6","4">>
Sushiswap == <<"0","x","d","9","e","1","c","e","1","7","f","2","6","4","1","f","2","4","a","e","8","3","6","3","7","a","b","6","6","a","2","c","c","a","9","c","3","7","8","b","9","f">>
OneInchV4 == <<"0","x","1","1","1","1","1","1","1","2","5","4","f","b","6","c","4","4","b","a","c","0","b","e","d","2","8","5","4","e","7","6","f","9","0","6","4","3","0","9","7","d">>

InitialBots == {Bot0, Bot1}

dex_addresses == {UniswapV2, UniswapV3, Sushiswap, OneInchV4}

\* int(hashlib.md5(address.encode()).hexdigest(), 16) % 100, tabulated for the
\* addresses the model's requests use
Md5Mod100(address) ==
    CASE address = Bot0 -> 99
      [] address = Bot1 -> 28
      [] address = AddrA -> 24
      [] address = AddrB -> 62
      [] address = AddrC -> 85
      [] address = UniswapV2 -> 4
      [] address = ShortAddr -> 73
      [] address = <<>> -> 66

\* _is_suspicious_address
IsSuspiciousAddress(address) ==
    \/ Count(address, "0") > 30
    \/ Md5Mod100(address) < 10

\* the membership test `from_addr in self.known_mev_bots`
KnownBotSender(from_addr, bots) == from_addr \in bots

\* _analyze_addresses, given the bot set each of its two membership tests sees;
\* .lower() on a value that is not a string raises AttributeError, uncaught
AnalyzeAddressesSeeing(tx, botsFrom, botsTo) ==
    IF ~IsText(tx.from) \/ ~IsText(tx.to) THEN Raised("AttributeError")
    ELSE
    LET from_addr == Lower(TextOf(tx.from))
        to_addr == Lower(TextOf(tx.to))
        c1 == KnownBotSender(from_addr, botsFrom)
        c2 == to_addr \in botsTo
        c3 == to_addr \in dex_addresses
        c4 == IsContractAddress(to_addr)
        c5 == IsSuspiciousAddress(from_addr)
    IN  Returned((IF c1 THEN 40 ELSE 0) + (IF c2 THEN 30 ELSE 0)
                   + (IF c3 THEN 5 ELSE 0) + (IF c4 THEN 5 ELSE 0)
                   + (IF c5 THEN 15 ELSE 0),
                 (IF c1 THEN <<"known_mev_bot_sender">> ELSE <<>>)
                   \o (IF c2 THEN <<"known_mev_bot_recipient">> ELSE <<>>)
                   \o (IF c3 THEN <<"dex_interaction">> ELSE <<>>)
                   \o (IF c4 THEN <<"contract_interaction">> ELSE <<>>)
                   \o (IF c5 THEN <<"suspicious_sender">> ELSE <<>>))

\* the body of the try block of _analyze_value_patterns after float():
\* int(value) is only evaluated when value > 0, and the OverflowError it
\* raises for inf is not among the caught exceptions
ValueChecks(value) ==
    LET hi == FloatGt(value, 100)
        mid == ~hi /\ FloatGt(value, 10)
        round == value.cls = "fin" /\ value.milli > 0 /\ value.milli % 1000 = 0
    IN  IF ParseError(value) THEN Returned(0, <<"invalid_value_data">>)
        ELSE IF FloatGt(value, 0) /\ IntOfFloat(value).cls = "OverflowError"
             THEN Raised("OverflowError")
        ELSE Returned((IF hi THEN 15 ELSE 0) + (IF mid THEN 5 ELSE 0)
                        + (IF round THEN 5 ELSE 0),
                      (IF hi THEN <<"high_value_transaction">> ELSE <<>>)
                        \o (IF mid THEN <<"medium_value_transaction">> ELSE <<>>)
                        \o (IF round THEN <<"round_number_value">> ELSE <<>>))

\* _analyze_value_patterns
AnalyzeValuePatterns(tx) ==
    ValueChecks(IF tx.value.k = "absent" THEN Fin(0) ELSE ParseFloat(tx.value))

\* tx_data.get('from', '') and tx.get('from'), as Python values
GetOrEmpty(x) == IF x.k = "absent" THEN [k |-> "str", s |-> <<>>] ELSE x
GetOrNone(x) == IF x.k = "absent" THEN [k |-> "null", s |-> <<>>] ELSE x

\* the list comprehension of _analyze_timing_patterns
RecentFromSame(tx, cache, current_time) ==
    {i \in 1..Len(cache) :
        /\ GetOrNone(cache[i].from) = GetOrEmpty(tx.from)
        /\ current_time - cache[i].processed_time < 60}

\* the thresholds off by one: the current transaction counted with the cached
TimingResultCountingSelf(count) ==
    IF count + 1 > 5 THEN Returned(20, <<"rapid_fire_transactions">>)
    ELSE IF count + 1 > 2 THEN Returned(10, <<"frequent_transactions">>)
    ELSE Returned(0, <<>>)

\* the two thresholds of _analyze_timing_patterns on len(recent_from_same)
TimingResult(count) ==
    IF count > 5 THEN Returned(20, <<"rapid_fire_transactions">>)
    ELSE IF count > 2 THEN Returned(10, <<"frequent_transactions">>)
    ELSE Returned(0, <<>>)

\* _analyze_timing_patterns
AnalyzeTimingPatterns(tx, cache, current_time) ==
    TimingResult(Cardinality(RecentFromSame(tx, cache, current_time)))

mev_signatures ==
    << [sig |-> <<"0","x","a","9","0","5","9","c","b","b">>, tag |-> "mev_function_signature_0xa9059cbb"],
       [sig |-> <<"0","x","0","9","5","e","a","7","b","3">>, tag |-> "mev_function_signature_0x095ea7b3"],
       [sig |-> <<"0","x","3","8","e","d","1","7","3","9">>, tag |-> "mev_function_signature_0x38ed1739"],
       [sig |-> <<"0","x","7","f","f","3","6","a","b","5">>, tag |-> "mev_function_signature_0x7ff36ab5"] >>

\* the length above which the payload counts as complex (line 243)
ComplexDataLength == 10

\* _analyze_transaction_data: len() of None or of a number raises TypeError,
\* uncaught; the loop stops at the first signature the payload starts with
AnalyzeTransactionData(tx) ==
    IF ~IsText(tx.data) THEN Raised("TypeError")
    ELSE
    LET data == IF tx.data.k = "absent" THEN <<"0", "x">> ELSE tx.data.s
        complex == Len(data) > ComplexDataLength
        hits == {i \in 1..Len(mev_signatures) : StartsWith(data, mev_signatures[i].sig)}
        first == CHOOSE i \in hits : \A j \in hits : i <= j
    IN  Returned((IF complex THEN 5 ELSE 0) + (IF hits # {} THEN 10 ELSE 0),
                 (IF complex THEN <<"complex_transaction_data">> ELSE <<>>)
                   \o (IF hits # {} THEN <<mev_signatures[first].tag>> ELSE <<>>))

\* the rapid-fire rule tried before the frontrunning rule
DetermineCategoryRapidFirst(risk_factors, risk_score) ==
    IF "known_mev_bot_sender" \in Range(risk_factors) THEN "mev_bot"
    ELSE IF "rapid_fire_transactions" \in Range(risk_factors) THEN "sandwich_attack"
    ELSE IF "high_gas_price" \in Range(risk_factors)
            /\ "dex_interaction" \in Range(risk_factors) THEN "frontrunning"
    ELSE IF risk_score > 50 THEN "high_risk"
    ELSE IF risk_score > 25 THEN "medium_risk"
    ELSE "normal"

\* _determine_category
DetermineCategory(risk_factors, risk_score) ==
    IF "known_mev_bot_sender" \in Range(risk_factors) THEN "mev_bot"
    ELSE IF "high_gas_price" \in Range(risk_factors)
            /\ "dex_interaction" \in Range(risk_factors) THEN "frontrunning"
    ELSE IF "rapid_fire_transactions" \in Range(risk_factors) THEN "sandwich_attack"
    ELSE IF risk_score > 50 THEN "high_risk"
    ELSE IF risk_score > 25 THEN "medium_risk"
    ELSE "normal"

\* ------------------------------------------------------------- the engine

\* self.max_cache_size is 1000 in the source (line 53); the model keeps the
\* same code with a cache small enough to fill, and to observe both timing
\* thresholds it has to hold more than 5 entries
max_cache_size == 7

\* the dict _cache_transaction appends: {**tx_data, risk_score, processed_time}.
\* Of the copied request only txHash and from are ever read back.
CachedTx(tx, risk_score, t) ==
    [txHash |-> tx.txHash, from |-> tx.from,
     risk_score |-> risk_score, processed_time |-> t]

\* the slice taken from the wrong end: recent_transactions[:max_cache_size]
FirstMax(list) ==
    IF Len(list) > max_cache_size THEN SubSeq(list, 1, max_cache_size) ELSE list

\* the slice recent_transactions[-max_cache_size:]
LastMax(list) ==
    IF Len(list) > max_cache_size
    THEN SubSeq(list, Len(list) - max_cache_size + 1, Len(list))
    ELSE list

\* _cache_transaction
CacheTransaction(cache, tx, risk_score, t) ==
    LET appended == Append(cache, CachedTx(tx, risk_score, t))
    IN  IF Len(appended) > max_cache_size THEN LastMax(appended) ELSE appended

ErrorVerdict ==
    [riskScore |-> 0, category |-> "error", riskFactors |-> <<"analysis_error">>]

\* lines 70-104 of analyze_transaction: the sum, the concatenation, the
\* category from the uncapped sum, the cap, and the verdict; or the except
\* branch when an analyzer raised
Aggregate(tx, gas_risk, address_risk, value_risk, timing_risk, data_risk) ==
    LET risk_score == gas_risk.score + address_risk.score + value_risk.score
                        + timing_risk.score + data_risk.score
        risk_factors == gas_risk.factors \o address_risk.factors
                          \o value_risk.factors \o timing_risk.factors
                          \o data_risk.factors
        ok == data_risk.st = "returned"
    IN  [frame |-> [tx |-> tx, gas_risk |-> gas_risk, address_risk |-> address_risk,
                    value_risk |-> value_risk, timing_risk |-> timing_risk,
                    data_risk |-> data_risk],
         ok |-> ok,
         capped |-> Min(risk_score, 100),
         verdict |-> IF ok
                     THEN [riskScore |-> Min(risk_score, 100),
                           category |-> DetermineCategory(risk_factors, risk_score),
                           riskFactors |-> risk_factors]
                     ELSE ErrorVerdict]

\* lines 63-67 of analyze_transaction: the five analyzers in program order,
\* each one run only if the one before it returned
AfterTiming(tx, gas_risk, address_risk, value_risk, timing_risk) ==
    Aggregate(tx, gas_risk, address_risk, value_risk, timing_risk,
              IF timing_risk.st = "returned" THEN AnalyzeTransactionData(tx)
              ELSE NotRun)

AfterValue(tx, cache, t, gas_risk, address_risk, value_risk) ==
    AfterTiming(tx, gas_risk, address_risk, value_risk,
                IF value_risk.st = "returned"
                THEN AnalyzeTimingPatterns(tx, cache, t) ELSE NotRun)

AfterAddresses(tx, cache, t, gas_risk, address_risk) ==
    AfterValue(tx, cache, t, gas_risk, address_risk,
               IF address_risk.st = "returned" THEN AnalyzeValuePatterns(tx)
               ELSE NotRun)

AfterGas(tx, botsFrom, botsTo, cache, t, gas_risk) ==
    AfterAddresses(tx, cache, t, gas_risk,
                   IF gas_risk.st = "returned"
                   THEN AnalyzeAddressesSeeing(tx, botsFrom, botsTo) ELSE NotRun)

\* analyze_transaction up to the return, given the bot set each of the two
\* membership tests of the address analyzer sees
AnalysisSeeing(tx, botsFrom, botsTo, cache, t) ==
    AfterGas(tx, botsFrom, botsTo, cache, t, AnalyzeGasPatterns(tx))

\* the same when nothing else runs between the analyzers
Analysis(tx, bots, cache, t) == AnalysisSeeing(tx, bots, bots, cache, t)

\* ------------------------------------------------------------- requests

Str(text) == [k |-> "str", s |-> text]
Num(text) == [k |-> "num", s |-> text]
Null == [k |-> "null", s |-> <<>>]

\* the gas fields of a request
GasFields(gasPrice, maxFeePerGas, maxPriorityFeePerGas, gasLimit) ==
    [gasPrice |-> gasPrice, maxFeePerGas |-> maxFeePerGas,
     maxPriorityFeePerGas |-> maxPriorityFeePerGas, gasLimit |-> gasLimit]

GasSamples ==
    { GasFields(Absent, Absent, Absent, Absent),
      GasFields(Num(<<"1","5","0">>), Absent, Absent, Absent),
      GasFields(Num(<<"2","5","0">>), Absent, Absent, Absent),
      GasFields(Str(<<"1","5","0">>), Str(<<"2","5","0",".","5">>), Num(<<"6","0">>),
                Num(<<"6","0","0","0","0","0">>)),
      GasFields(Str(<<"a","b","c">>), Num(<<"2","5","0">>), Num(<<"6","0">>),
                Num(<<"6","0","0","0","0","0">>)),
      GasFields(Num(<<"1","5","0">>), Absent, Null, Absent),
      GasFields(Num(<<"1","5","0">>), Absent, Absent, Str(<<"a","b","c">>)),
      GasFields(Num(<<"1","5","0">>), Absent, Absent,
                Num(<<"I","n","f","i","n","i","t","y">>)) }

FromSamples ==
    { Str(AddrA), Str(AddrAUpper), Str(AddrCUpper), Str(Bot1), Str(Bot0),
      Str(UniswapV2), Null }

ToSamples == { Str(UniswapV2), Str(Bot1), Str(ShortAddr), Null }

ValueSamples ==
    { Num(<<"0">>), Str(<<"5","0">>), Str(<<"5","0",".","5">>),
      Num(<<"1","5","0">>), Str(<<"a","b","c">>), Str(<<"i","n","f">>) }

DataSamples ==
    { Absent, Str(<<"0","x","1","2","3","4">>),
      Str(<<"0","x","a","9","0","5","9","c","b","b">>),
      Str(<<"0","x","7","f","f","3","6","a","b","5","0","1">>),
      Null }

\* a request body (the fields analyze_transaction reads, and txHash)
Request(h, from, to, value, gas, data) ==
    [txHash |-> h, from |-> from, to |-> to, value |-> value,
     gasPrice |-> gas.gasPrice, maxFeePerGas |-> gas.maxFeePerGas,
     maxPriorityFeePerGas |-> gas.maxPriorityFeePerGas,
     gasLimit |-> gas.gasLimit, data |-> data]

\* every combination of the sampled fields (the caller numbers the requests:
\* WithHash)
Transactions ==
    { Request(0, f, t, v, g, d) :
        f \in FromSamples, t \in ToSamples, v \in ValueSamples,
        g \in GasSamples, d \in DataSamples }

\* a plain transfer to a router, from sender f
PlainTransfer(f) ==
    Request(0, f, Str(UniswapV2), Num(<<"0">>),
            GasFields(Absent, Absent, Absent, Absent), Absent)

\* request tx sent as the h-th request of the run
WithHash(tx, h) == [tx EXCEPT !.txHash = h]

\* the requests of a burst: two senders that send the same plain transfer
BurstTransactions == {PlainTransfer(Str(AddrA)), PlainTransfer(Str(AddrB))}

\* the address lists posted to /update_mev_bots
BotLists ==
    { <<Str(AddrCUpper)>>, <<Str(AddrCUpper), Null, Str(AddrA)>> }

\* ------------------------------------------------------------- bounds

MaxCalls == 8        \* analyze_transaction calls in a sequential run
MaxTime == 60        \* the clock stops advancing here
MaxUpdates == 1      \* /update_mev_bots requests in a concurrent run
NumThreads == 2      \* request threads of the server

\* the clock advances by half a timing window or by a whole one
TickSteps == {30, 60}

Threads == 1..NumThreads

\* ------------------------------------------------------------- actions

NoVerdict == [riskScore |-> 0, category |-> "none", riskFactors |-> <<>>]

NoFrame ==
    [tx |-> Request(0, Absent, Absent, Absent,
                    GasFields(Absent, Absent, Absent, Absent), Absent),
     gas_risk |-> NotRun, address_risk |-> NotRun, value_risk |-> NotRun,
     timing_risk |-> NotRun, data_risk |-> NotRun]

NoLocal ==
    [tx |-> NoFrame.tx, view |-> [seen |-> {}, pre |-> {}, post |-> {}],
     botsFrom |-> {}, result |-> [frame |-> NoFrame, ok |-> FALSE, capped |-> 0,
                                  verdict |-> NoVerdict],
     sliced |-> <<>>]

IdleUpdate == [pc |-> "idle", pending |-> <<>>, pre |-> {}, post |-> {}, count |-> 0]

engine == <<known_mev_bots, recent_transactions, now, ncalls, verdict, frame>>
threads == <<pc, local, upd, base, batch>>
vars == <<engine, threads>>

\* MEVDetectionEngine.__init__
Init ==
    /\ known_mev_bots = InitialBots
    /\ recent_transactions = <<>>
    /\ now = 0
    /\ ncalls = 0
    /\ verdict = NoVerdict
    /\ frame = NoFrame
    /\ pc = [t \in Threads |-> "idle"]
    /\ local = [t \in Threads |-> NoLocal]
    /\ upd = IdleUpdate
    /\ base = <<>>
    /\ batch = {}

\* analyze_transaction(tx_data), the whole call: the analysis, and on the
\* path without exception _cache_transaction with the capped score
Finish(tx, a) ==
    /\ verdict' = a.verdict
    /\ frame' = a.frame
    /\ recent_transactions' =
          IF a.ok THEN CacheTransaction(recent_transactions, tx, a.capped, now)
          ELSE recent_transactions

AnalyzeTransaction(tx) ==
    /\ ncalls < MaxCalls
    /\ Finish(tx, Analysis(tx, known_mev_bots, recent_transactions, now))
    /\ ncalls' = ncalls + 1
    /\ UNCHANGED <<known_mev_bots, now, threads>>

\* the addresses set.update() has added when the generator stops: all of them,
\* or those before the first one whose .lower() raises AttributeError
MergedPrefix(addresses) ==
    LET bad == {i \in 1..Len(addresses) : ~(addresses[i].k = "str")}
        n == IF bad = {} THEN Len(addresses)
             ELSE (CHOOSE i \in bad : \A j \in bad : i <= j) - 1
    IN  {Lower(addresses[i].s) : i \in 1..n}

\* update_mev_bots, the whole request
UpdateMevBots(addresses) ==
    /\ known_mev_bots' = known_mev_bots \cup MergedPrefix(addresses)
    /\ UNCHANGED <<recent_transactions, now, ncalls, verdict, frame, threads>>

\* the wall clock advances between requests
Tick(d) ==
    /\ now + d <= MaxTime
    /\ now' = now + d
    /\ UNCHANGED <<known_mev_bots, recent_transactions, ncalls, verdict, frame, threads>>

\* requests of a burst, one after another
Next ==
    \/ \E tx \in BurstTransactions : AnalyzeTransaction(WithHash(tx, ncalls + 1))
    \/ \E addresses \in BotLists : UpdateMevBots(addresses)
    \/ \E d \in TickSteps : Tick(d)

Spec == Init /\ [][Next]_vars

\* a burst of plain transfers from one sender, and then one request with any
\* combination of the sampled fields
BurstSoFar ==
    ncalls = 0 \/ frame.tx = WithHash(PlainTransfer(Str(AddrA)), ncalls)

WideNext ==
    \/ /\ BurstSoFar
       /\ \E tx \in Transactions : AnalyzeTransaction(WithHash(tx, ncalls + 1))
    \/ /\ BurstSoFar
       /\ \E addresses \in BotLists : UpdateMevBots(addresses)

SpecWide == Init /\ [][WideNext]_vars

\* ------------------------------------------------- concurrent requests
\* app.run() serves each request on its own thread, and nothing in the module
\* locks the engine.  A thread can be preempted between any two bytecodes;
\* the steps below are the accesses to the shared set and list, with the
\* thread-local work in between folded into the step that follows it.

ConcTransactions == {PlainTransfer(Str(AddrA))}

ConcBotLists == { <<Str(AddrCUpper), Str(AddrB)>> }

Hashes(cache) == [i \in 1..Len(cache) |-> cache[i].txHash]

\* the cache after n plain transfers from one sender were analyzed one after
\* another on a fresh engine, all at time 0
WarmNext(before, tx) ==
    CacheTransaction(before, tx, Analysis(tx, InitialBots, before, 0).capped, 0)

RECURSIVE WarmCache(_)
WarmCache(n) ==
    IF n = 0 THEN <<>>
    ELSE WarmNext(WarmCache(n - 1), WithHash(PlainTransfer(Str(AddrA)), n))

\* the last of these analyses
WarmLast ==
    Analysis(WithHash(PlainTransfer(Str(AddrA)), max_cache_size),
             InitialBots, WarmCache(max_cache_size - 1), 0)

\* the server has served max_cache_size requests, so the cache is full
ConcInit ==
    /\ known_mev_bots = InitialBots
    /\ recent_transactions = WarmCache(max_cache_size)
    /\ now = 0
    /\ ncalls = max_cache_size
    /\ verdict = WarmLast.verdict
    /\ frame = WarmLast.frame
    /\ pc = [t \in Threads |-> "idle"]
    /\ local = [t \in Threads |-> NoLocal]
    /\ upd = IdleUpdate
    /\ base = Hashes(WarmCache(max_cache_size))
    /\ batch = {}

Quiescent == \A t \in Threads : pc[t] = "idle"

\* a thread takes a request and reaches `from_addr in self.known_mev_bots`
Start(t, tx) ==
    /\ pc[t] = "idle"
    /\ ncalls < max_cache_size + NumThreads + 1
    /\ ncalls' = ncalls + 1
    /\ pc' = [pc EXCEPT ![t] = "bots_from"]
    /\ local' = [local EXCEPT ![t] = [NoLocal EXCEPT !.tx = WithHash(tx, ncalls + 1)]]
    /\ base' = IF Quiescent THEN Hashes(recent_transactions) ELSE base
    /\ batch' = IF Quiescent THEN {ncalls + 1} ELSE batch \cup {ncalls + 1}
    /\ UNCHANGED <<known_mev_bots, recent_transactions, now, verdict, frame, upd>>

\* the bot set as an update in progress found it and as it will leave it
View ==
    [seen |-> known_mev_bots,
     pre |-> IF upd.pc = "merging" THEN upd.pre ELSE known_mev_bots,
     post |-> IF upd.pc = "merging" THEN upd.post ELSE known_mev_bots]

\* `from_addr in self.known_mev_bots` (line 160)
ReadBotsFrom(t) ==
    /\ pc[t] = "bots_from"
    /\ pc' = [pc EXCEPT ![t] = "bots_to"]
    /\ local' = [local EXCEPT ![t].botsFrom = known_mev_bots, ![t].view = View]
    /\ UNCHANGED <<engine, upd, base, batch>>

\* `to_addr in self.known_mev_bots` (line 164), and on to the list
\* comprehension over self.recent_transactions (line 220); the other three
\* analyzers, the sum, the category and the cap read nothing shared
ReadBotsToAndCache(t) ==
    /\ pc[t] = "bots_to"
    /\ local' = [local EXCEPT ![t].result =
                    AnalysisSeeing(local[t].tx, local[t].botsFrom, known_mev_bots,
                                   recent_transactions, now),
                                ![t].view = View]
    /\ pc' = [pc EXCEPT ![t] = IF local'[t].result.ok THEN "append" ELSE "return"]
    /\ UNCHANGED <<engine, upd, base, batch>>

\* self.recent_transactions.append(cached_tx) (line 301)
AppendCached(t) ==
    /\ pc[t] = "append"
    /\ recent_transactions' =
          Append(recent_transactions,
                 CachedTx(local[t].tx, local[t].result.capped, now))
    /\ pc' = [pc EXCEPT ![t] = "check"]
    /\ UNCHANGED <<known_mev_bots, now, ncalls, verdict, frame, local, upd, base, batch>>

\* len(self.recent_transactions) > self.max_cache_size (line 304), and when it
\* is, the slice of line 305 into a new list
CheckAndSlice(t) ==
    /\ pc[t] = "check"
    /\ IF Len(recent_transactions) > max_cache_size
       THEN /\ local' = [local EXCEPT ![t].sliced = LastMax(recent_transactions)]
            /\ pc' = [pc EXCEPT ![t] = "assign"]
       ELSE /\ pc' = [pc EXCEPT ![t] = "return"]
            /\ UNCHANGED local
    /\ UNCHANGED <<engine, upd, base, batch>>

\* the assignment of line 305: self.recent_transactions = <the new list>
AssignSliced(t) ==
    /\ pc[t] = "assign"
    /\ recent_transactions' = local[t].sliced
    /\ pc' = [pc EXCEPT ![t] = "return"]
    /\ UNCHANGED <<known_mev_bots, now, ncalls, verdict, frame, local, upd, base, batch>>

\* analyze_transaction returns its verdict
Return(t) ==
    /\ pc[t] = "return"
    /\ verdict' = local[t].result.verdict
    /\ frame' = local[t].result.frame
    /\ pc' = [pc EXCEPT ![t] = "idle"]
    /\ local' = [local EXCEPT ![t] = NoLocal]
    /\ UNCHANGED <<known_mev_bots, recent_transactions, now, ncalls, upd, base, batch>>

\* update_mev_bots calls set.update() with the generator (line 380)
UpdateBegin(addresses) ==
    /\ upd.pc = "idle"
    /\ upd.count < MaxUpdates
    /\ upd' = [pc |-> "merging", pending |-> addresses, pre |-> known_mev_bots,
               post |-> known_mev_bots \cup {Lower(TextOf(addresses[i])) : i \in 1..Len(addresses)},
               count |-> upd.count + 1]
    /\ UNCHANGED <<engine, pc, local, base, batch>>

\* set.update() draws the next address from the generator, which runs
\* addr.lower() (line 381), and adds it; the generator is Python code, so other
\* threads run between two of these
UpdateAddNext ==
    /\ upd.pc = "merging"
    /\ upd.pending # <<>>
    /\ IF Head(upd.pending).k = "str"
       THEN /\ known_mev_bots' = known_mev_bots \cup {Lower(Head(upd.pending).s)}
            /\ upd' = [upd EXCEPT !.pending = Tail(upd.pending),
                                  !.pc = IF Len(upd.pending) = 1 THEN "idle" ELSE "merging"]
       ELSE /\ upd' = [upd EXCEPT !.pending = <<>>, !.pc = "idle"]
            /\ UNCHANGED known_mev_bots
    /\ UNCHANGED <<recent_transactions, now, ncalls, verdict, frame, pc, local, base, batch>>

ConcNext ==
    \/ \E t \in Threads, tx \in ConcTransactions : Start(t, tx)
    \/ \E t \in Threads : ReadBotsFrom(t)
    \/ \E t \in Threads : ReadBotsToAndCache(t)
    \/ \E t \in Threads : AppendCached(t)
    \/ \E t \in Threads : CheckAndSlice(t)
    \/ \E t \in Threads : AssignSliced(t)
    \/ \E t \in Threads : Return(t)
    \/ \E addresses \in ConcBotLists : UpdateBegin(addresses)
    \/ UpdateAddNext

SpecConc == ConcInit /\ [][ConcNext]_vars

\* ================================================================ claims

Analyzers == {"gas_risk", "address_risk", "value_risk", "timing_risk", "data_risk"}

Factors == Range(verdict.riskFactors)

\* the last request was analyzed without exception, and its entry is the
\* newest of the cache
LastCached ==
    /\ ncalls > 0
    /\ verdict.category # "error"
    /\ Len(recent_transactions) > 0
    /\ recent_transactions[Len(recent_transactions)].txHash = frame.tx.txHash

\* the cached entries of the last request's sender, its own included
SenderEntries ==
    {i \in 1..Len(recent_transactions) : recent_transactions[i].from = frame.tx.from}

\* all of them were processed less than 60 seconds before the last request
AllWithinWindow ==
    \A i \in SenderEntries :
        recent_transactions[Len(recent_transactions)].processed_time
            - recent_transactions[i].processed_time < 60

\* the last request was the n-th of its sender, nothing was evicted yet, and
\* the sender's requests all fell within 60 seconds
NthOfBurst(n) ==
    /\ LastCached
    /\ Len(recent_transactions) < max_cache_size
    /\ Cardinality(SenderEntries) = n
    /\ AllWithinWindow

\* C1: every verdict has 0 <= riskScore <= 100 and riskScore = min(100, sum of
\* the five analyzer scores), an analyzer that did not return a score counting
\* 0 (the contribution sections 4.1 and 7 of the spec give a failed analyzer).
C1_ScoreIsCappedSum ==
    ncalls > 0 =>
        /\ verdict.riskScore \in 0..100
        /\ \A a \in Analyzers : frame[a].score >= 0
        /\ verdict.riskScore =
              Min(100, frame.gas_risk.score + frame.address_risk.score
                         + frame.value_risk.score + frame.timing_risk.score
                         + frame.data_risk.score)

\* C2 as stated: the 6th request of a sender within 60 seconds, on a cache that
\* held none of its entries, gets rapid_fire_transactions and a timing score
\* of 20.
C2_SixthIsRapidFire ==
    NthOfBurst(6) =>
        /\ "rapid_fire_transactions" \in Factors
        /\ frame.timing_risk.score = 20

\* C2 as amended: the 6th such request finds 5 cached entries and gets
\* frequent_transactions with a timing score of 10, not rapid_fire; a request
\* that leaves 7 or more entries of its sender, all within 60 seconds, in the
\* cache (the 7th of the burst onwards) gets rapid_fire_transactions with 20.
C2_SeventhIsRapidFire ==
    /\ NthOfBurst(6) =>
          /\ "frequent_transactions" \in Factors
          /\ "rapid_fire_transactions" \notin Factors
          /\ frame.timing_risk.score = 10
    /\ (LastCached /\ Cardinality(SenderEntries) >= 7 /\ AllWithinWindow) =>
          /\ "rapid_fire_transactions" \in Factors
          /\ frame.timing_risk.score = 20

C2_Witness ==
    /\ LastCached
    /\ Cardinality(SenderEntries) >= 7
    /\ AllWithinWindow
    /\ "rapid_fire_transactions" \in Factors
    /\ recent_transactions[1].processed_time
          < recent_transactions[Len(recent_transactions)].processed_time

\* C3: the cache holds at most max_cache_size entries, and they are the most
\* recently appended ones in arrival order (requests are numbered in arrival
\* order by txHash, and every request of a burst is cached).
C3_CacheIsBoundedFifo ==
    /\ Len(recent_transactions) = Min(ncalls, max_cache_size)
    /\ \A i \in 1..Len(recent_transactions) :
          recent_transactions[i].txHash = ncalls - Len(recent_transactions) + i

C3_Witness ==
    /\ ncalls = max_cache_size + 1
    /\ Len(recent_transactions) = max_cache_size
    /\ recent_transactions[1].txHash = 2

\* what the cache holds after the requests of `started` ran one at a time, in
\* some order, on a cache holding `before`: the last max_cache_size of
\* `before` followed by the requests in that order
SerialOutcome(before, started, after) ==
    LET m == Cardinality(started)
        n == Min(Len(before) + m, max_cache_size)
    IN  /\ Len(after) = n
        /\ \A i, j \in 1..n : i # j => after[i] # after[j]
        /\ IF m >= n
           THEN Range(after) \subseteq started
           ELSE /\ \A i \in 1..(n - m) : after[i] = before[Len(before) - (n - m) + i]
                /\ {after[i] : i \in (n - m + 1)..n} = started

\* C4: whenever no request is in progress, the cache is what some sequential
\* order of the requests that ran since the threads were last all idle would
\* have left.
C4_CacheIsSerializable ==
    Quiescent => SerialOutcome(base, batch, Hashes(recent_transactions))

\* C5: every read of the bot set by a request in progress sees the set as it
\* was before the update in progress or with the whole list merged.
C5_BotUpdateIsAtomic ==
    \A t \in Threads : local[t].view.seen \in {local[t].view.pre, local[t].view.post}

\* C6: when one analyzer fails on its own fields, the verdict is not the error
\* verdict and the other four analyzers ran and have their factors in it.
C6_AnalyzersFaultIsolated ==
    \A a \in Analyzers :
        (ncalls > 0 /\ frame[a].st = "raised") =>
            /\ verdict.category # "error"
            /\ \A b \in Analyzers \ {a} :
                  /\ frame[b].st = "returned"
                  /\ Range(frame[b].factors) \subseteq Factors

\* C7: analyzing a transaction whose sender, lowercased, is in the bot set at
\* that moment yields known_mev_bot_sender, an address score of at least 40
\* and the category mev_bot, whatever its other fields are.
C7_KnownBotSenderFlagged ==
    [][ (/\ ncalls' = ncalls + 1
         /\ frame'.tx.from.k = "str"
         /\ Lower(frame'.tx.from.s) \in known_mev_bots)
        => (/\ "known_mev_bot_sender" \in Range(verdict'.riskFactors)
            /\ frame'.address_risk.score >= 40
            /\ verdict'.category = "mev_bot") ]_vars

\* the six rules of section 4.7 of the spec, in order
FirstMatchingRule(factors, score) ==
    CASE "known_mev_bot_sender" \in factors -> "mev_bot"
      [] OTHER ->
    CASE "high_gas_price" \in factors /\ "dex_interaction" \in factors -> "frontrunning"
      [] OTHER ->
    CASE "rapid_fire_transactions" \in factors -> "sandwich_attack"
      [] OTHER ->
    CASE score > 50 -> "high_risk"
      [] OTHER ->
    CASE score > 25 -> "medium_risk"
      [] OTHER -> "normal"

\* C8: the category of a non-error verdict is the one the first matching rule
\* gives for the verdict's own riskFactors and (capped) riskScore.
C8_CategoryIsFirstMatch ==
    (ncalls > 0 /\ verdict.category # "error") =>
        verdict.category = FirstMatchingRule(Factors, verdict.riskScore)

C8_Witness ==
    /\ verdict.category = "frontrunning"
    /\ "rapid_fire_transactions" \in Factors
    /\ verdict.riskScore = 100

\* a gas field that is present and that float() (int() for gasLimit) rejects
\* with ValueError or TypeError
MalformedGas(tx) ==
    \/ \E f \in {"gasPrice", "maxFeePerGas", "maxPriorityFeePerGas"} :
          tx[f].k # "absent" /\ ParseError(ParseFloat(tx[f]))
    \/ tx.gasLimit.k # "absent" /\ ParseInt(tx.gasLimit).cls \in {"ValueError", "TypeError"}

\* C9: when any gas field is malformed the gas analyzer returns score 0 and
\* exactly the factors [invalid_gas_data].
C9_GasFallbackIsAtomic ==
    (ncalls > 0 /\ frame.gas_risk.st = "returned" /\ MalformedGas(frame.tx)) =>
        /\ frame.gas_risk.score = 0
        /\ frame.gas_risk.factors = <<"invalid_gas_data">>

\* C10: the payload analyzer gives +5 and complex_transaction_data exactly to
\* the payloads longer than the empty payload "0x", +10 and one signature
\* factor exactly to those that start with a known selector, and nothing else.
C10_PayloadScore ==
    (ncalls > 0 /\ frame.data_risk.st = "returned") =>
        LET data == IF frame.tx.data.k = "absent" THEN <<"0", "x">> ELSE frame.tx.data.s
            complex == Len(data) > Len(<<"0", "x">>)
            known == \E i \in 1..Len(mev_signatures) : StartsWith(data, mev_signatures[i].sig)
            tags == {mev_signatures[i].tag : i \in 1..Len(mev_signatures)}
        IN  /\ ("complex_transaction_data" \in Range(frame.data_risk.factors)) = complex
            /\ known => Cardinality({i \in 1..Len(frame.data_risk.factors) :
                                        frame.data_risk.factors[i] \in tags}) = 1
            /\ ~known => Range(frame.data_risk.factors) \cap tags = {}
            /\ frame.data_risk.score
                  = (IF complex THEN 5 ELSE 0) + (IF known THEN 10 ELSE 0)
            /\ frame.data_risk.score \in {0, 5, 10, 15}

====
